---- MODULE Spec2Model ----
(***************************************************************************)
(* A model of pydecanter's asset compression and content-addressed cache:  *)
(* lib/utils.py, lib/css_compressor.py, lib/js_compressor.py and           *)
(* lib/decorators.py.                                                      *)
(*                                                                         *)
(* URLs, paths and file names are TLA+ strings, handled with the same      *)
(* string operations the Python code uses.  CSS/JS text is a sequence of   *)
(* tokens.  An exception is a result record whose err field is not "none". *)
(***************************************************************************)
EXTENDS Integers, Sequences, FiniteSets, TLC

VARIABLES
  cache,     \* the cache directory: the content of every file in it, by path
  last,      \* the last call of a css or js decorator, and what it did
  runs,      \* how many decorator calls were made
  compress,  \* context['compress']
  procs,     \* the compress calls that run interleaved, by thread
  call,      \* the last call of a function of lib/utils.py, and its result
  parser,    \* the PyDecanterParser that is being fed, with the events fed to it
  built      \* the static build: the files written, the last reference rewritten

vars == <<cache, last, runs, compress, procs, call, parser, built>>

(***************************************************************************)
(* Python string operations                                                *)
(***************************************************************************)

\* s[i] (1-based) as a one-character string
CharAt(s, i) == SubSeq(s, i, i)

\* s[i:] for a 1-based i
From(s, i) == SubSeq(s, i, Len(s))

\* str.startswith
StartsWith(s, p) == Len(p) <= Len(s) /\ SubSeq(s, 1, Len(p)) = p

\* str.endswith
EndsWith(s, p) == Len(p) <= Len(s) /\ SubSeq(s, Len(s) - Len(p) + 1, Len(s)) = p

\* the first place from i on where sub occurs in s; 0 when there is none
RECURSIVE FindFrom(_, _, _)
FindFrom(s, sub, i) ==
  IF i + Len(sub) - 1 > Len(s) THEN 0
  ELSE IF SubSeq(s, i, i + Len(sub) - 1) = sub THEN i
  ELSE FindFrom(s, sub, i + 1)

\* str.find, 1-based; 0 when sub does not occur
Find(s, sub) == FindFrom(s, sub, 1)

\* the last place up to i where sub occurs in s; 0 when there is none
RECURSIVE RFindFrom(_, _, _)
RFindFrom(s, sub, i) ==
  IF i < 1 THEN 0
  ELSE IF SubSeq(s, i, i + Len(sub) - 1) = sub THEN i
  ELSE RFindFrom(s, sub, i - 1)

\* str.rfind, 1-based; 0 when sub does not occur
RFind(s, sub) == RFindFrom(s, sub, Len(s) - Len(sub) + 1)

\* the `in` operator on strings
Contains(s, sub) == Find(s, sub) > 0

\* s.replace(old, "", 1)
RemoveFirst(s, old) ==
  LET i == Find(s, old)
  IN IF i = 0 THEN s ELSE SubSeq(s, 1, i - 1) \o From(s, i + Len(old))

\* s.split(sep, 1)[0]
SplitHead(s, sep) ==
  LET i == Find(s, sep) IN IF i = 0 THEN s ELSE SubSeq(s, 1, i - 1)

\* s.rsplit(sep, 1)[0]
RSplitHead(s, sep) ==
  LET i == RFind(s, sep) IN IF i = 0 THEN s ELSE SubSeq(s, 1, i - 1)

\* s.rsplit(sep, 1)[1], for an s that contains sep
RSplitTail(s, sep) == From(s, RFind(s, sep) + Len(sep))

\* s.lstrip(chars), chars a set of one-character strings
RECURSIVE LStrip(_, _)
LStrip(s, chars) ==
  IF Len(s) > 0 /\ CharAt(s, 1) \in chars THEN LStrip(From(s, 2), chars) ELSE s

\* s.rstrip(chars)
RECURSIVE RStrip(_, _)
RStrip(s, chars) ==
  IF Len(s) > 0 /\ CharAt(s, Len(s)) \in chars
  THEN RStrip(SubSeq(s, 1, Len(s) - 1), chars) ELSE s

\* s.strip(chars)
Strip(s, chars) == LStrip(RStrip(s, chars), chars)

\* s.split(sep) for a one-character sep: the sequence of the pieces
RECURSIVE Split(_, _)
Split(s, sep) ==
  LET i == Find(s, sep)
  IN IF i = 0 THEN <<s>> ELSE <<SubSeq(s, 1, i - 1)>> \o Split(From(s, i + 1), sep)

\* sep.join(parts)
RECURSIVE Join(_, _)
Join(parts, sep) ==
  IF Len(parts) = 0 THEN ""
  ELSE IF Len(parts) = 1 THEN parts[1]
  ELSE parts[1] \o sep \o Join(Tail(parts), sep)

\* re.sub(r'//', '/', s): every non-overlapping "//", left to right
RECURSIVE SubDoubleSlash(_)
SubDoubleSlash(s) ==
  LET i == Find(s, "//")
  IN IF i = 0 THEN s ELSE SubSeq(s, 1, i) \o SubDoubleSlash(From(s, i + 2))

(***************************************************************************)
(* posixpath                                                               *)
(***************************************************************************)

\* os.path.join(a, b)
PathJoin(a, b) ==
  IF StartsWith(b, "/") THEN b
  ELSE IF a = "" \/ EndsWith(a, "/") THEN a \o b
  ELSE a \o "/" \o b

\* os.path.dirname(p)
DirName(p) ==
  LET head == SubSeq(p, 1, RFind(p, "/"))
  IN IF head # "" /\ RStrip(head, {"/"}) # "" THEN RStrip(head, {"/"}) ELSE head

\* the component loop of posixpath.normpath
RECURSIVE NormComps(_, _, _)
NormComps(comps, new, rooted) ==
  IF Len(comps) = 0 THEN new
  ELSE LET comp == Head(comps)
           rest == Tail(comps)
       IN IF comp \in {"", "."} THEN NormComps(rest, new, rooted)
          ELSE IF comp # ".."
                  \/ (~rooted /\ Len(new) = 0)
                  \/ (Len(new) > 0 /\ new[Len(new)] = "..")
               THEN NormComps(rest, Append(new, comp), rooted)
          ELSE IF Len(new) > 0
               THEN NormComps(rest, SubSeq(new, 1, Len(new) - 1), rooted)
          ELSE NormComps(rest, new, rooted)

\* posixpath.normpath(path)
NormPath(path) ==
  IF path = "" THEN "."
  ELSE LET slashes == IF ~StartsWith(path, "/") THEN ""
                      ELSE IF StartsWith(path, "//") /\ ~StartsWith(path, "///")
                           THEN "//" ELSE "/"
           body == Join(NormComps(Split(path, "/"), <<>>, slashes # ""), "/")
           out == slashes \o body
       IN IF out = "" THEN "." ELSE out

(***************************************************************************)
(* Content and its digest                                                  *)
(***************************************************************************)

\* Text is a sequence of tokens: plain text, white space, and the two forms of
\* reference CssAbsoluteFilter matches, url(<v>) and src='<v>'.
Txt(v) == [k |-> "txt", v |-> v]
Ws == [k |-> "ws", v |-> " "]
UrlRef(v) == [k |-> "url", v |-> v]
SrcRef(v) == [k |-> "src", v |-> v]

\* number of values of the (truncated) digest in the model
HashMod == 7

\* the digits a digest is written with
HexDigits == <<"0", "1", "2", "3", "4", "5", "6", "7", "8", "9", "a", "b", "c", "d", "e", "f">>

\* a token's contribution to the digest
TokCode(tok) ==
  Len(tok.v) + (CASE tok.k = "txt" -> 1 [] tok.k = "ws" -> 2 [] tok.k = "url" -> 3 [] OTHER -> 5)

RECURSIVE DigestSum(_, _)
DigestSum(content, i) ==
  IF i > Len(content) THEN 0
  ELSE i * TokCode(content[i]) + DigestSum(content, i + 1)

\* the other 31 digits of a digest
DigestTail == "41d8cd98f00b204e9800998ecf8427e"

\* hashlib.md5(content).hexdigest(): a deterministic many-to-one function of
\* the whole content, 32 hex digits long
Digest(content) ==
  HexDigits[((Len(content) + DigestSum(content, 1)) % HashMod) + 1] \o DigestTail

\* the length the code truncates digests to
HashLen == 12

\* get_content_hash(content, length)
get_content_hash(content, length) == SubSeq(Digest(content), 1, length)

(***************************************************************************)
(* The site under base_root                                                *)
(***************************************************************************)

NoNode == "<none>"

\* the result of a call that returned
Ok(v) == [err |-> "none", val |-> v]

\* the result of a call that raised
Raise(e) == [err |-> e, val |-> ""]

\* directories under base_root, by path relative to it ("" is base_root)
SiteDirs == {"", "css", "css/img", "img", "js", "v1.2"}

\* files under base_root, by relative path, with their content
SiteFiles ==
  [p \in {"a.css", "css/b.css", "img/x.png", "css/img/x.png", "img/logo.png",
          "js/a.js", "js/b.js", "LICENSE", "v1.2/README", "img/favicon.png",
          "base.mako"} |->
     CASE p = "a.css" -> <<Txt("a{"), UrlRef("./img/x.png"), Ws, Txt("}")>>
       [] p = "css/b.css" -> <<Txt("b{"), Ws, UrlRef("./img/x.png"), Txt("}")>>
       [] p = "img/x.png" -> <<Txt("PNG1")>>
       [] p = "css/img/x.png" -> <<Txt("PNG22")>>
       [] p = "img/logo.png" -> <<Txt("LOGO333")>>
       [] p = "js/a.js" -> <<Txt("\"use strict\";"), Txt("var a;"), Ws>>
       [] p = "js/b.js" -> <<Txt("var"), Ws, Txt("b;")>>
       [] p = "LICENSE" -> <<Txt("MIT")>>
       [] p = "img/favicon.png" -> <<Txt("ICO44444")>>
       [] p = "base.mako" -> <<Txt("<html>")>>
       [] OTHER -> <<Txt("readme")>>]

\* the parent directory of a node
ParentDir(node) == IF Contains(node, "/") THEN RSplitHead(node, "/") ELSE ""

\* the directories above base_root: they exist, and nothing in them is modelled
Outside == "<outside>"

\* every directory a path can reach
AllDirs == SiteDirs \cup {Outside}

\* the operating system's walk of a path's components from a node: the node
\* reached, or NoNode.  A component is looked up only in a directory; ".." at
\* base_root leaves the site.
RECURSIVE Walk(_, _)
Walk(comps, node) ==
  IF Len(comps) = 0 THEN node
  ELSE IF node \notin AllDirs THEN NoNode
  ELSE LET comp == Head(comps)
       IN IF comp \in {"", "."} THEN Walk(Tail(comps), node)
          ELSE IF comp = ".."
               THEN Walk(Tail(comps), IF node \in {"", Outside} THEN Outside ELSE ParentDir(node))
          ELSE LET child == IF node = "" THEN comp ELSE node \o "/" \o comp
               IN IF node # Outside /\ (child \in SiteDirs \/ child \in DOMAIN SiteFiles)
                  THEN Walk(Tail(comps), child) ELSE NoNode

\* the node os.path.join(base_root, rel) names
Resolve(rel) == Walk(Split(rel, "/"), "")

\* os.path.exists(os.path.join(base_root, rel))
PathExists(rel) == Resolve(rel) # NoNode

(***************************************************************************)
(* lib/utils.py                                                            *)
(***************************************************************************)

\* the digest of the file at a node; open() of a directory raises
hash_node(node, length) ==
  IF node \in DOMAIN SiteFiles THEN Ok(SubSeq(Digest(SiteFiles[node]), 1, length))
  ELSE IF node \in AllDirs THEN Raise("IsADirectoryError")
  ELSE Raise("FileNotFoundError")

\* get_file_hash(filename, length)
get_file_hash(filename, length) == hash_node(Resolve(filename), length)

\* local_path of extract_filename once the base_url prefix is removed or the
\* referrer's directory is joined
local_path_of(local_path, base_url, referrer) ==
  IF StartsWith(local_path, base_url) THEN RemoveFirst(local_path, base_url)
  ELSE PathJoin(DirName(referrer), local_path)

\* the path extract_filename hands to os.path.exists, relative to base_root
extract_path(url, base_url, referrer) ==
  LStrip(local_path_of(RSplitHead(RSplitHead(url, "#"), "?"), base_url, referrer), {"/"})

\* os.path.exists(filename) and filename; NoNode stands for False
existing(filename) == IF PathExists(filename) THEN filename ELSE NoNode

\* extract_filename(url, base_url, base_root, referrer)
extract_filename(url, base_url, referrer) == existing(extract_path(url, base_url, referrer))

\* add_cache_tag's `url, ext = url.rsplit(".", 1)` and the join with the hash
splice_ext(url, file_hash) ==
  IF ~Contains(url, ".") THEN Raise("ValueError")
  ELSE Ok(Join(<<RSplitHead(url, "."), file_hash, RSplitTail(url, ".")>>, "."))

\* re-appends a part add_cache_tag split off, when there was one
rejoin(r, has, whole, sep) ==
  IF r.err = "none" /\ has THEN Ok(Join(<<r.val, RSplitTail(whole, sep)>>, sep)) ELSE r

\* add_cache_tag from `if "?" in url` on, for the url without its fragment
splice_query(url, file_hash) ==
  IF Contains(url, "?")
  THEN rejoin(splice_ext(RSplitHead(url, "?"), file_hash), TRUE, url, "?")
  ELSE splice_ext(url, file_hash)

\* add_cache_tag from `if "#" in url` on
splice_tag(url, file_hash) ==
  IF Contains(url, "#")
  THEN rejoin(splice_query(RSplitHead(url, "#"), file_hash), TRUE, url, "#")
  ELSE splice_query(url, file_hash)

\* add_cache_tag once the file was hashed
tag_hashed(url, file_hash) ==
  IF file_hash.err # "none" THEN file_hash ELSE splice_tag(url, file_hash.val)

\* add_cache_tag once extract_filename returned
tag_file(url, filename) ==
  IF filename = NoNode THEN Ok(url) ELSE tag_hashed(url, get_file_hash(filename, HashLen))

\* add_cache_tag(url, base_url, base_root, referrer)
add_cache_tag(url, base_url, referrer) ==
  tag_file(url, extract_filename(url, base_url, referrer))

\* the paths add_cache_tag looks up on the file system, in order:
\* os.path.exists in extract_filename, then open in get_file_hash
lookups_of(path) == IF PathExists(path) THEN <<path, path>> ELSE <<path>>

add_cache_tag_lookups(url, base_url, referrer) ==
  lookups_of(extract_path(url, base_url, referrer))

\* get_basename in error: the querystring is cut at the last "?"
get_basename_rsplit(url, base_url) ==
  IF ~StartsWith(url, base_url) THEN Raise("NotAccessibleError")
  ELSE Ok(RSplitHead(RemoveFirst(url, base_url), "?"))

\* get_basename(url, base_url)
get_basename(url, base_url) ==
  IF ~StartsWith(url, base_url) THEN Raise("NotAccessibleError")
  ELSE Ok(SplitHead(RemoveFirst(url, base_url), "?"))

\* get_filename(basename, base_root) for the joined path
found(filename) == IF PathExists(filename) THEN Ok(filename) ELSE Raise("FileNotFoundError")

\* get_filename(basename, base_root)
get_filename(basename) == found(LStrip(basename, {"/"}))

\* get_cache_filepath(content, output_dir, ext)
get_cache_filepath(content, output_dir, ext) ==
  PathJoin(output_dir, Join(<<get_content_hash(content, HashLen), ext>>, "."))

(***************************************************************************)
(* lib/css_compressor.py: CssAbsoluteFilter                                *)
(***************************************************************************)

\* a parsed element's text when the parser saw no text for it (Python's None)
NoText == <<[k |-> "None", v |-> ""]>>

\* an absent attribute, as attrs_dict.get(name, None) returns it
None == "<None>"

\* the result of a call that returned a piece of content
OkContent(c) == [err |-> "none", val |-> c]

\* the result of a call that raised where content was expected
RaiseContent(e) == [err |-> e, val |-> <<>>]

\* two pieces of content in sequence; the first exception ends the sequence
Cat(this, rest) ==
  IF this.err # "none" THEN this
  ELSE IF rest.err # "none" THEN rest
  ELSE OkContent(this.val \o rest.val)

\* CssAbsoluteFilter.__init__: self.base_url
filter_base_url(base_url) == RStrip(base_url, {"/"})

\* CssAbsoluteFilter.process: self.directory_name for a stylesheet's basename
directory_name(base_url, basename) ==
  Join(<<filter_base_url(base_url), DirName(LStrip(basename, {"/"}))>>, "/")

\* the text url_converter's template puts between the parentheses of url(...)
Quoted(url) == "'" \o url \o "'"

\* the url argument _converter hands to add_cache_tag for a stripped url
converter_url(url, base_url, basename) ==
  IF StartsWith(url, "/") THEN url
  ELSE NormPath(Join(<<directory_name(base_url, basename), url>>, "/"))

\* _converter's return for what add_cache_tag gave: url('...') for a url that
\* starts with "/", the matched form's template otherwise
converted(kind, url, tagged) ==
  IF tagged.err # "none" THEN RaiseContent(tagged.err)
  ELSE IF StartsWith(url, "/") \/ kind = "url" THEN OkContent(<<UrlRef(Quoted(tagged.val))>>)
  ELSE OkContent(<<SrcRef(tagged.val)>>)

\* _converter after url.strip(' \'"')
convert(kind, url, base_url, basename) ==
  IF StartsWith(url, "#") \/ StartsWith(url, "data:")
  THEN OkContent(<<UrlRef(Quoted(url))>>)
  ELSE converted(kind, url,
                 add_cache_tag(converter_url(url, base_url, basename),
                               filter_base_url(base_url), ""))

\* CssAbsoluteFilter._converter on one matched reference: the token that
\* replaces it, or the exception add_cache_tag raised
converter(tok, base_url, basename) ==
  convert(tok.k, Strip(tok.v, {" ", "'", "\""}), base_url, basename)

\* the pass over one token: a matched reference is converted
sub_ref(tok, base_url, basename) ==
  IF tok.k \in {"url", "src"} THEN converter(tok, base_url, basename) ELSE OkContent(<<tok>>)

\* RE_SRC.sub(src_converter, RE_URL.sub(url_converter, content)): every matched
\* reference replaced, the first exception ending the pass
RECURSIVE sub_refs(_, _, _)
sub_refs(content, base_url, basename) ==
  IF Len(content) = 0 THEN OkContent(<<>>)
  ELSE Cat(sub_ref(Head(content), base_url, basename),
           sub_refs(Tail(content), base_url, basename))

\* CssAbsoluteFilter.process(content, filename, basename); compress_css passes
\* the basename (None for an inline style) as both
process(content, base_url, basename) ==
  IF basename = None THEN OkContent(content)
  ELSE sub_refs(content, base_url, basename)

\* whether a token is white space
IsWs(tok) == tok.k = "ws"

\* rcssmin.cssmin: drops the white space
cssmin(content) == SelectSeq(content, LAMBDA tok : ~IsWs(tok))

(***************************************************************************)
(* lib/css_compressor.py: compress_css                                     *)
(***************************************************************************)

\* context['output_root']
OutputRoot == "/out"

\* context['assets_dir']
AssetsDirName == "assets"

\* assets_dir = os.path.join(output_root, context['assets_dir'])
AssetsDir == PathJoin(OutputRoot, AssetsDirName)

\* the letters str.lower changes, with what it makes of them
LowerOf ==
  [A |-> "a", B |-> "b", C |-> "c", D |-> "d", E |-> "e", F |-> "f", G |-> "g", H |-> "h",
   I |-> "i", J |-> "j", K |-> "k", L |-> "l", M |-> "m", N |-> "n", O |-> "o", P |-> "p",
   Q |-> "q", R |-> "r", S |-> "s", T |-> "t", U |-> "u", V |-> "v", W |-> "w", X |-> "x",
   Y |-> "y", Z |-> "z"]

\* str.lower of one character
LowerChar(c) == IF c \in DOMAIN LowerOf THEN LowerOf[c] ELSE c

\* str.lower
Lower(s) == Join([i \in 1..Len(s) |-> LowerChar(CharAt(s, i))], "")

\* s.replace(old, new) from the first occurrence, at i, on
RECURSIVE ReplaceFrom(_, _, _, _)
ReplaceFrom(s, old, new, i) ==
  IF i = 0 THEN s
  ELSE SubSeq(s, 1, i - 1) \o new
       \o ReplaceFrom(From(s, i + Len(old)), old, new, Find(From(s, i + Len(old)), old))

\* s.replace(old, new), for a non-empty old
ReplaceAll(s, old, new) == ReplaceFrom(s, old, new, Find(s, old))

\* compress_css's base_url: re.sub(r'//', '/', '/' + base_url.strip('/') + '/')
css_base_url(ctx_base_url) == SubDoubleSlash("/" \o Strip(ctx_base_url, {"/"}) \o "/")

\* elem['attrs_dict'].get(name, None)
AttrGet(elem, name) == IF name \in DOMAIN elem.attrs THEN elem.attrs[name] ELSE None

\* one unit of a media group: ('file', filename, basename, elem) or
\* ('inline', text, None, elem)
FileUnit(filename, basename, elem) ==
  [type |-> "file", filename |-> filename, text |-> <<>>, basename |-> basename, elem |-> elem]

InlineUnit(elem) ==
  [type |-> "inline", filename |-> "", text |-> elem.text, basename |-> None, elem |-> elem]

\* the outcome of classifying one element: the unit made (at most one) or the
\* exception raised
Units(units) == [err |-> "none", units |-> units]

RaiseUnits(e) == [err |-> e, units |-> <<>>]

\* data = ('file', filename, basename, elem) once get_filename returned
file_unit(filename, basename, elem) ==
  IF filename.err # "none" THEN RaiseUnits(filename.err)
  ELSE Units(<<FileUnit(filename.val, basename, elem)>>)

\* the two calls that resolve a declared url, once get_basename returned
resolve_unit(basename, elem) ==
  IF basename.err # "none" THEN RaiseUnits(basename.err)
  ELSE file_unit(get_filename(basename.val), basename.val, elem)

\* the body of compress_css's first loop up to `if data:` for one element
css_classify(elem, base_url) ==
  IF elem.tag = "link"
  THEN IF "rel" \notin DOMAIN elem.attrs THEN RaiseUnits("KeyError")
       ELSE IF Lower(elem.attrs["rel"]) # "stylesheet" THEN Units(<<>>)
       ELSE IF "href" \notin DOMAIN elem.attrs THEN RaiseUnits("KeyError")
       ELSE resolve_unit(get_basename(elem.attrs["href"], base_url), elem)
  ELSE IF elem.tag = "style" THEN Units(<<InlineUnit(elem)>>)
  ELSE Units(<<>>)

\* a media group: (media, [data, ...])
MediaNode(media, units) == [media |-> media, units |-> units]

\* a grouping step in error: the unit joins the first group that has its media
\* value, adjacent or not
group_by_value(media_nodes, unit, media) ==
  IF \E i \in 1..Len(media_nodes) : media_nodes[i].media = media
  THEN [media_nodes EXCEPT
          ![CHOOSE i \in 1..Len(media_nodes) : media_nodes[i].media = media].units =
             Append(@, unit)]
  ELSE Append(media_nodes, MediaNode(media, <<unit>>))

\* the grouping step of the first loop for the element's media value: the unit
\* joins the last group when that group has this value, and starts a new group
\* otherwise
group_by(media_nodes, unit, media) ==
  IF Len(media_nodes) > 0 /\ media_nodes[Len(media_nodes)].media = media
  THEN [media_nodes EXCEPT ![Len(media_nodes)].units = Append(@, unit)]
  ELSE Append(media_nodes, MediaNode(media, <<unit>>))

\* the grouping step of the first loop
css_group(media_nodes, unit) == group_by(media_nodes, unit, AttrGet(unit.elem, "media"))

\* the outcome of the first loop: the groups made or the exception raised
Scanned(err, media_nodes) == [err |-> err, media_nodes |-> media_nodes]

\* the first loop's step for the unit made of an element, if any
css_add(media_nodes, c) ==
  IF c.err # "none" THEN Scanned(c.err, media_nodes)
  ELSE IF Len(c.units) = 0 THEN Scanned("none", media_nodes)
  ELSE Scanned("none", css_group(media_nodes, c.units[1]))

\* compress_css's first loop over parser.elems, from element i on, with the
\* outcome so far
RECURSIVE css_scan(_, _, _, _)
css_scan(elems, i, sofar, base_url) ==
  IF i > Len(elems) \/ sofar.err # "none" THEN sofar
  ELSE css_scan(elems, i + 1,
                css_add(sofar.media_nodes, css_classify(elems[i], base_url)), base_url)

\* the file a 'file' unit names, read
read_node(node) ==
  IF node \in DOMAIN SiteFiles THEN OkContent(SiteFiles[node])
  ELSE IF node \in AllDirs THEN RaiseContent("IsADirectoryError")
  ELSE RaiseContent("FileNotFoundError")

\* the filter applied to what was read
processed(value, base_url, basename) ==
  IF value.err # "none" THEN value ELSE process(value.val, base_url, basename)

\* the content a unit contributes: the file read or the inline text, through
\* CssAbsoluteFilter.process
css_unit_content(unit, base_url) ==
  IF unit.type = "file"
  THEN processed(read_node(Resolve(unit.filename)), base_url, unit.basename)
  ELSE process(unit.text, base_url, unit.basename)

\* compress_css's inner loop for the units of one group
RECURSIVE css_contents(_, _, _)
css_contents(units, i, base_url) ==
  IF i > Len(units) THEN OkContent(<<>>)
  ELSE Cat(css_unit_content(units[i], base_url), css_contents(units, i + 1, base_url))

\* whether a None text is among the units: ''.join raises for it
HasNoText(units) == \E i \in 1..Len(units) : units[i].type = "inline" /\ units[i].text = NoText

\* ''.join(content)
css_joined(contents, units) ==
  IF contents.err = "none" /\ HasNoText(units) THEN RaiseContent("TypeError") ELSE contents

\* the joined content of one group
css_group_content(node, base_url) ==
  css_joined(css_contents(node.units, 1, base_url), node.units)

\* the url of a cache file: re.sub(r'//', '/', outputpath.replace(output_root, base_url))
cache_url(outputpath, base_url) == SubDoubleSlash(ReplaceAll(outputpath, OutputRoot, base_url))

\* a store in error: the file is written whether it exists or not
store_always(dir, outputpath, content) ==
  [dir |-> (outputpath :> content) @@ dir,
   writes |-> <<[path |-> outputpath, content |-> content,
                 existed |-> outputpath \in DOMAIN dir]>>]

\* lines 112-114 of compress_css (69-71 of compress_js) run without
\* interruption: the file is written only when os.path.exists found no file.
\* Gives the directory afterwards and the writes performed.
store(dir, outputpath, content) ==
  IF outputpath \in DOMAIN dir THEN [dir |-> dir, writes |-> <<>>]
  ELSE [dir |-> dir @@ (outputpath :> content),
        writes |-> <<[path |-> outputpath, content |-> content, existed |-> FALSE]>>]

\* one entry of output_elems, with the path it names
OutputElem(outputpath, mtype, base_url) ==
  [url |-> cache_url(outputpath, base_url), media |-> mtype, path |-> outputpath]

\* a second loop in error: only a file that was written gets a tag
css_stored_new(acc, stored, oe) ==
  [err |-> "none", dir |-> stored.dir, writes |-> acc.writes \o stored.writes,
   output_elems |-> IF Len(stored.writes) = 0 THEN acc.output_elems
                    ELSE Append(acc.output_elems, oe)]

\* the second loop's state after a group was stored
css_stored(acc, stored, oe) ==
  [err |-> "none", dir |-> stored.dir, writes |-> acc.writes \o stored.writes,
   output_elems |-> Append(acc.output_elems, oe)]

\* the second loop's step for a group's output path
css_write(acc, content, outputpath, mtype, base_url) ==
  css_stored(acc, store(acc.dir, outputpath, content), OutputElem(outputpath, mtype, base_url))

\* the second loop's step for a group's final content: its output path is
\* made of the hash of that content
css_final(acc, content, mtype, base_url) ==
  css_write(acc, content, get_cache_filepath(content, AssetsDir, "css"), mtype, base_url)

\* a second loop in error: the output path is made of the hash of the content
\* before cssmin
css_output_early(acc, joined, mtype, base_url) ==
  IF joined.err # "none" THEN [acc EXCEPT !.err = joined.err]
  ELSE css_write(acc, cssmin(joined.val), get_cache_filepath(joined.val, AssetsDir, "css"),
                 mtype, base_url)

\* the second loop's step for a group's joined content: content = cssmin(...)
css_output(acc, joined, mtype, base_url) ==
  IF joined.err # "none" THEN [acc EXCEPT !.err = joined.err]
  ELSE css_final(acc, cssmin(joined.val), mtype, base_url)

\* compress_css's second loop from group i on: the directory, the writes and
\* the output elements so far, and the exception that ended it, if any
RECURSIVE css_emit(_, _, _, _)
css_emit(media_nodes, i, base_url, acc) ==
  IF i > Len(media_nodes) \/ acc.err # "none" THEN acc
  ELSE css_emit(media_nodes, i + 1, base_url,
                css_output(acc, css_group_content(media_nodes[i], base_url),
                           media_nodes[i].media, base_url))

\* a tag in error: the media attribute is written for every group, for a
\* group without media value too
css_tag_always_media(oe) ==
  "<link rel=\"stylesheet\" href=\"" \o oe.url \o "\" " \o "media=\"" \o oe.media \o "\" " \o "/>"

\* one tag of compress_css's result
css_tag(oe) ==
  "<link rel=\"stylesheet\" href=\"" \o oe.url \o "\" "
  \o (IF oe.media # None THEN "media=\"" \o oe.media \o "\" " ELSE "") \o "/>"

\* the tags of the output elements
css_tags(output_elems) == [i \in 1..Len(output_elems) |-> css_tag(output_elems[i])]

\* what a compress call did: the exception raised, if any, the markup
\* returned, the cache directory afterwards and the writes made to it; for
\* compress_css also its groups and output elements
Compressed(err, out, dir, writes, media_nodes, output_elems) ==
  [err |-> err, out |-> out, dir |-> dir, writes |-> writes,
   media_nodes |-> media_nodes, output_elems |-> output_elems]

\* compress_css's return after the second loop
css_return(media_nodes, emit) ==
  Compressed(emit.err,
             IF emit.err = "none" THEN Join(css_tags(emit.output_elems), "\n") ELSE "",
             emit.dir, emit.writes, media_nodes, emit.output_elems)

\* compress_css in error: when the first loop raises, the groups made before
\* the failing element are written all the same
css_groups_done_eager(scan, base_url, dir) ==
  css_return(scan.media_nodes,
             [css_emit(scan.media_nodes, 1, base_url,
                       [err |-> "none", dir |-> dir, writes |-> <<>>, output_elems |-> <<>>])
              EXCEPT !.err = IF scan.err # "none" THEN scan.err ELSE @])

\* compress_css after the first loop
css_groups_done(scan, base_url, dir) ==
  IF scan.err # "none" THEN Compressed(scan.err, "", dir, <<>>, scan.media_nodes, <<>>)
  ELSE css_return(scan.media_nodes,
                  css_emit(scan.media_nodes, 1, base_url,
                           [err |-> "none", dir |-> dir, writes |-> <<>>,
                            output_elems |-> <<>>]))

\* compress_css with its base_url
css_with_base(elems, base_url, dir) ==
  css_groups_done(css_scan(elems, 1, Scanned("none", <<>>), base_url), base_url, dir)

\* compress_css(css_block, context) on the elements the parser found in the
\* block, against the cache directory dir
compress_css(elems, ctx_base_url, dir) == css_with_base(elems, css_base_url(ctx_base_url), dir)

(***************************************************************************)
(* lib/js_compressor.py                                                    *)
(***************************************************************************)

\* whether the character of text at i is one of chars
IsAt(text, i, chars) == i >= 1 /\ i <= Len(text) /\ CharAt(text, i) \in chars

\* the end (exclusive) of ['"]?;? read from position a
strict_tail(text, a) == IF IsAt(text, a, {";"}) THEN a + 1 ELSE a

\* the end (exclusive) of a match of ['"]?use strict['"]?;? whose "use strict"
\* starts at i
strict_end(text, i) ==
  strict_tail(text, IF IsAt(text, i + Len("use strict"), {"'", "\""})
                    THEN i + Len("use strict") + 1 ELSE i + Len("use strict"))

\* the start of that match
strict_start(text, i) == IF IsAt(text, i - 1, {"'", "\""}) THEN i - 1 ELSE i

\* do_replacements on a string, the first "use strict" at i (0: none)
RECURSIVE strip_from(_, _)
strip_from(text, i) ==
  IF i = 0 THEN text
  ELSE SubSeq(text, 1, strict_start(text, i) - 1)
       \o strip_from(From(text, strict_end(text, i)),
                     Find(From(text, strict_end(text, i)), "use strict"))

\* do_replacements on a string: re.sub(r'[\'"]?use strict[\'"]?;?', '', text)
strip_strict(text) == strip_from(text, Find(text, "use strict"))

\* a token with its text replaced; a token left empty is no text at all
retext(tok, v) == IF v = "" THEN <<>> ELSE <<[tok EXCEPT !.v = v]>>

\* do_replacements(text) on tokens
RECURSIVE do_replacements(_)
do_replacements(content) ==
  IF Len(content) = 0 THEN <<>>
  ELSE retext(Head(content), strip_strict(Head(content).v)) \o do_replacements(Tail(content))

\* slimit.minify: drops the white space
minify(content) == SelectSeq(content, LAMBDA tok : ~IsWs(tok))

\* compress_js's base_url: context['base_url'].rstrip('/') + '/'
js_base_url(ctx_base_url) == RStrip(ctx_base_url, {"/"}) \o "/"

\* the body of compress_js's first loop for one element
js_classify(elem, base_url) ==
  IF "src" \in DOMAIN elem.attrs
  THEN resolve_unit(get_basename(elem.attrs["src"], base_url), elem)
  ELSE Units(<<InlineUnit(elem)>>)

\* the outcome of compress_js's first loop: the nodes or the exception raised
JsScanned(err, nodes) == [err |-> err, nodes |-> nodes]

\* a first loop in error: the unit is put before the units made so far
js_add_front(nodes, c) == JsScanned(c.err, c.units \o nodes)

\* the first loop's step for the unit made of an element
js_add(nodes, c) == JsScanned(c.err, nodes \o c.units)

\* compress_js's first loop over parser.elems, from element i on
RECURSIVE js_scan(_, _, _, _)
js_scan(elems, i, sofar, base_url) ==
  IF i > Len(elems) \/ sofar.err # "none" THEN sofar
  ELSE js_scan(elems, i + 1, js_add(sofar.nodes, js_classify(elems[i], base_url)), base_url)

\* do_replacements applied to what was read
replaced(value) ==
  IF value.err # "none" THEN value ELSE OkContent(do_replacements(value.val))

\* the content a unit contributes: the file read or the inline text, through
\* do_replacements (re.sub of a None text raises)
js_unit_content(unit) ==
  IF unit.type = "file" THEN replaced(read_node(Resolve(unit.filename)))
  ELSE IF unit.text = NoText THEN RaiseContent("TypeError")
  ELSE OkContent(do_replacements(unit.text))

\* compress_js's second loop and the join, from unit i on
RECURSIVE js_join(_, _)
js_join(nodes, i) ==
  IF i > Len(nodes) THEN OkContent(<<>>)
  ELSE Cat(js_unit_content(nodes[i]), js_join(nodes, i + 1))

\* minify(content)
js_min(joined) == IF joined.err # "none" THEN joined ELSE OkContent(minify(joined.val))

\* the content compress_js writes: minify(''.join(content))
js_content(nodes) == js_min(js_join(nodes, 1))

\* compress_js's return once the content is stored
js_return(stored, outputpath, base_url) ==
  Compressed("none", "<script src=\"" \o cache_url(outputpath, base_url) \o "\"></script>",
             stored.dir, stored.writes, <<>>, <<>>)

\* compress_js from the output path on
js_write(content, outputpath, base_url, dir) ==
  js_return(store(dir, outputpath, content), outputpath, base_url)

\* compress_js from the joined and minified content on
js_output(content, base_url, dir) ==
  IF content.err # "none" THEN Compressed(content.err, "", dir, <<>>, <<>>, <<>>)
  ELSE js_write(content.val, get_cache_filepath(content.val, AssetsDir, "js"), base_url, dir)

\* compress_js after the first loop
js_nodes_done(scan, base_url, dir) ==
  IF scan.err # "none" THEN Compressed(scan.err, "", dir, <<>>, <<>>, <<>>)
  ELSE js_output(js_content(scan.nodes), base_url, dir)

\* compress_js with its base_url
js_with_base(elems, base_url, dir) ==
  js_nodes_done(js_scan(elems, 1, JsScanned("none", <<>>), base_url), base_url, dir)

\* compress_js(js_block, context) on the elements the parser found in the
\* block, against the cache directory dir
compress_js(elems, ctx_base_url, dir) == js_with_base(elems, js_base_url(ctx_base_url), dir)

(***************************************************************************)
(* lib/decorators.py                                                       *)
(***************************************************************************)

\* context['base_url'] of the pipeline runs (PyDecanter.__init__ strips the
\* trailing stroke)
CtxBaseUrl == "/site"

\* the record of a decorator call: the block, what compress did, what was
\* handed to context.write ("tags", "block" or "nothing"), whether the
\* traceback was printed, and whether the call before was of the same
\* decorator on the same block
RunOf(kind, elems, r, wrote, logged, again) ==
  [kind |-> kind, elems |-> elems, err |-> r.err, out |-> r.out, writes |-> r.writes,
   wrote |-> wrote, logged |-> logged, again |-> again,
   media_nodes |-> r.media_nodes, output_elems |-> r.output_elems]

Run(kind, elems, r, wrote, logged) ==
  RunOf(kind, elems, r, wrote, logged, last.kind = kind /\ last.elems = elems)

\* a block that was not compressed
NotCompressed(dir) == Compressed("none", "", dir, <<>>, <<>>, <<>>)

\* no decorator call yet
NoRun == RunOf("none", <<>>, NotCompressed(<<>>), "nothing", FALSE, FALSE)

\* decorate from the try statement on, r what the compress call did: an
\* exception is printed and re-raised, and context.write is not reached
decorated(kind, elems, r) ==
  /\ cache' = r.dir
  /\ last' = Run(kind, elems, r, IF r.err = "none" THEN "tags" ELSE "nothing", r.err # "none")

\* decorate when context['compress'] is false: context.write(block)
undecorated(kind, elems) ==
  /\ cache' = cache
  /\ last' = Run(kind, elems, NotCompressed(cache), "block", FALSE)

\* decorators.css's decorate on the block whose elements are elems
css(elems) ==
  IF compress THEN decorated("css", elems, compress_css(elems, CtxBaseUrl, cache))
  ELSE undecorated("css", elems)

\* decorators.js's decorate
js(elems) ==
  IF compress THEN decorated("js", elems, compress_js(elems, CtxBaseUrl, cache))
  ELSE undecorated("js", elems)

(***************************************************************************)
(* Blocks of markup, as the elements PyDecanterParser finds in them        *)
(***************************************************************************)

Elem(tag, attrs, text) == [tag |-> tag, attrs |-> attrs, text |-> text]

\* an attribute dictionary without entries
NoAttrs == [n \in {} |-> ""]

\* every sequence of at most n members of S
SeqsUpTo(S, n) == UNION {[1..len -> S] : len \in 0..n}

\* the text of the inline styles
StyleText == <<Txt("p{"), Ws, Txt("}")>>

\* the text of the inline scripts
ScriptText == <<Txt("'use strict';var"), Ws, Txt("i;")>>

\* the style and link elements of the pipeline runs: an inline style, a
\* stylesheet of the site and one outside base_url
CssElems ==
  { Elem("style", NoAttrs, StyleText),
    Elem("link", [rel |-> "stylesheet", href |-> "/site/a.css?v=2", media |-> "print"], NoText),
    Elem("link", [rel |-> "stylesheet", href |-> "/other/app/style.css"], NoText) }

\* the script elements of the pipeline runs: an inline script and a script
\* that is missing on disk
JsElems ==
  { Elem("script", NoAttrs, ScriptText),
    Elem("script", [src |-> "/site/js/missing.js"], NoText) }

\* the longest block of the pipeline runs
MaxElems == 2

\* the number of decorator calls of the pipeline runs
MaxRuns == 2

CssBlocks == SeqsUpTo(CssElems, MaxElems)

JsBlocks == SeqsUpTo(JsElems, MaxElems)

(***************************************************************************)
(* The pipeline: decorator calls one after the other on one cache directory*)
(***************************************************************************)

\* no call of a function of lib/utils.py yet
NoCall ==
  [fn |-> "none", url |-> "", base_url |-> "", referrer |-> "", basename |-> "",
   kind |-> "", res |-> Ok(""), lookups |-> <<>>]

\* no parser was made
NoParser == [tags |-> {}, elems |-> <<>>, current_tag |-> None, fed |-> <<>>]

\* no static build was started
NoBuild == [done |-> FALSE, written |-> {}, ref |-> NoCall]

\* the variables of the other specifications
Idle == procs = <<>> /\ call = NoCall /\ parser = NoParser /\ built = NoBuild

Init ==
  /\ cache = <<>>
  /\ last = NoRun
  /\ runs = 0
  /\ compress \in BOOLEAN
  /\ Idle

RenderCss ==
  /\ runs < MaxRuns
  /\ \E elems \in CssBlocks : css(elems)
  /\ runs' = runs + 1
  /\ UNCHANGED <<compress, procs, call, parser, built>>

RenderJs ==
  /\ runs < MaxRuns
  /\ \E elems \in JsBlocks : js(elems)
  /\ runs' = runs + 1
  /\ UNCHANGED <<compress, procs, call, parser, built>>

Next == RenderCss \/ RenderJs

Spec == Init /\ [][Next]_vars

(***************************************************************************)
(* One decorator call on a fresh cache directory, for longer blocks        *)
(***************************************************************************)

\* the style and link elements of the single calls: inline styles without
\* media and for print, a stylesheet of the site for screen, and a link that
\* is no stylesheet
OnceCssElems ==
  { Elem("style", NoAttrs, StyleText),
    Elem("style", [media |-> "print"], StyleText),
    Elem("link", [rel |-> "Stylesheet", href |-> "/site/css/b.css", media |-> "screen"], NoText),
    Elem("link", [rel |-> "icon", href |-> "/favicon.ico"], NoText) }

\* the script elements of the single calls
OnceJsElems ==
  { Elem("script", NoAttrs, ScriptText),
    Elem("script", [src |-> "/site/js/a.js"], NoText),
    Elem("script", [src |-> "/site/js/b.js?v=2"], NoText),
    Elem("script", [src |-> "/other/app.js"], NoText) }

\* the longest block of the single calls
MaxOnceElems == 5

InitOnce ==
  /\ cache = <<>>
  /\ last = NoRun
  /\ runs = 0
  /\ compress = TRUE
  /\ Idle

CssOnce ==
  /\ runs = 0
  /\ \E elems \in SeqsUpTo(OnceCssElems, MaxOnceElems) : css(elems)
  /\ runs' = runs + 1
  /\ UNCHANGED <<compress, procs, call, parser, built>>

JsOnce ==
  /\ runs = 0
  /\ \E elems \in SeqsUpTo(OnceJsElems, MaxOnceElems) : js(elems)
  /\ runs' = runs + 1
  /\ UNCHANGED <<compress, procs, call, parser, built>>

NextOnce == CssOnce \/ JsOnce

SpecOnce == InitOnce /\ [][NextOnce]_vars

(***************************************************************************)
(* A decorator call on a cache directory that an earlier call populated,   *)
(* for blocks with targets that do not resolve                             *)
(***************************************************************************)

\* style and link elements: an inline style, a stylesheet of the site, one
\* outside base_url and one that is missing on disk
FailCssElems ==
  { Elem("style", NoAttrs, StyleText),
    Elem("link", [rel |-> "stylesheet", href |-> "/site/a.css", media |-> "print"], NoText),
    Elem("link", [rel |-> "stylesheet", href |-> "/other/app/style.css"], NoText),
    Elem("link", [rel |-> "stylesheet", href |-> "/site/css/missing.css?v=2"], NoText) }

\* script elements: an inline script, a script of the site, one outside
\* base_url and one that is missing on disk
FailJsElems ==
  { Elem("script", NoAttrs, ScriptText),
    Elem("script", [src |-> "/site/js/b.js"], NoText),
    Elem("script", [src |-> "/other/app.js"], NoText),
    Elem("script", [src |-> "/site/js/missing.js"], NoText) }

\* the longest of these blocks
MaxFailElems == 3

InitFail ==
  /\ cache = <<>>
  /\ last = NoRun
  /\ runs = 0
  /\ compress = TRUE
  /\ Idle

\* the earlier call: a block of one element
PopulateCss ==
  /\ runs = 0
  /\ \E elems \in SeqsUpTo(FailCssElems, 1) : css(elems)
  /\ runs' = runs + 1
  /\ UNCHANGED <<compress, procs, call, parser, built>>

PopulateJs ==
  /\ runs = 0
  /\ \E elems \in SeqsUpTo(FailJsElems, 1) : js(elems)
  /\ runs' = runs + 1
  /\ UNCHANGED <<compress, procs, call, parser, built>>

CssLater ==
  /\ runs = 1
  /\ \E elems \in SeqsUpTo(FailCssElems, MaxFailElems) : css(elems)
  /\ runs' = runs + 1
  /\ UNCHANGED <<compress, procs, call, parser, built>>

JsLater ==
  /\ runs = 1
  /\ \E elems \in SeqsUpTo(FailJsElems, MaxFailElems) : js(elems)
  /\ runs' = runs + 1
  /\ UNCHANGED <<compress, procs, call, parser, built>>

NextFail == PopulateCss \/ PopulateJs \/ CssLater \/ JsLater

SpecFail == InitFail /\ [][NextFail]_vars

(***************************************************************************)
(* One compress_css call on blocks with links that are no stylesheets      *)
(***************************************************************************)

\* style and link elements: inline styles without media and for print, a
\* stylesheet of the site, a link with another rel and a link without rel
LinkCssElems ==
  { Elem("style", NoAttrs, StyleText),
    Elem("style", [media |-> "print"], StyleText),
    Elem("link", [rel |-> "stylesheet", href |-> "/site/a.css"], NoText),
    Elem("link", [rel |-> "icon", href |-> "/favicon.ico", media |-> "print"], NoText),
    Elem("link", [href |-> "/site/a.css"], NoText) }

\* the longest of these blocks
MaxLinkElems == 3

InitLink ==
  /\ cache = <<>>
  /\ last = NoRun
  /\ runs = 0
  /\ compress = TRUE
  /\ Idle

CssLink ==
  /\ runs = 0
  /\ \E elems \in SeqsUpTo(LinkCssElems, MaxLinkElems) : css(elems)
  /\ runs' = runs + 1
  /\ UNCHANGED <<compress, procs, call, parser, built>>

SpecLink == InitLink /\ [][CssLink]_vars

(***************************************************************************)
(* Calls of the functions of lib/utils.py and of the filter's converter    *)
(***************************************************************************)

\* urls without querystring and fragment
UrlStems ==
  { "/site/img/logo.png", "/site/img/none.png", "/site/LICENSE", "/site/v1.2/README",
    "/site/img", "/site/site/a.css", "/other/app/style.css", "img/logo.png",
    "./img/x.png", "../img/x.png", "http://cdn/x.png", "#section1",
    "data:image/png;base64,AAAA", "" }

Queries == {"", "?v=2", "?a=1?b=2"}

Fragments == {"", "#frag"}

Urls == {stem \o q \o f : stem \in UrlStems, q \in Queries, f \in Fragments}

\* the values base_url is called with
BaseUrls == {"/site/", "/site", "/", ""}

\* the values referrer is called with
Referrers == {"", "css/b.css"}

\* the references matched inside stylesheets, as written there
RefTexts ==
  { "./img/x.png", "img/none.png", "http://cdn/x.png", "/site/img/logo.png",
    "/site/img/none.png", "#section1", "data:image/png;base64,AAAA",
    "'../img/logo.png'", " \"img/x.png\" " }

\* the stylesheets the references are found in
Basenames == {"a.css", "css/b.css"}

InitUrl ==
  /\ cache = <<>>
  /\ last = NoRun
  /\ runs = 0
  /\ compress = TRUE
  /\ Idle

CallGetBasename ==
  /\ runs = 0
  /\ \E url \in Urls, base_url \in BaseUrls :
       call' = [NoCall EXCEPT !.fn = "get_basename", !.url = url, !.base_url = base_url,
                              !.res = get_basename(url, base_url)]
  /\ runs' = runs + 1
  /\ UNCHANGED <<cache, last, compress, procs, parser, built>>

CallAddCacheTag ==
  /\ runs = 0
  /\ \E url \in Urls, base_url \in BaseUrls, referrer \in Referrers :
       call' = [NoCall EXCEPT !.fn = "add_cache_tag", !.url = url, !.base_url = base_url,
                              !.referrer = referrer,
                              !.res = add_cache_tag(url, base_url, referrer),
                              !.lookups = add_cache_tag_lookups(url, base_url, referrer)]
  /\ runs' = runs + 1
  /\ UNCHANGED <<cache, last, compress, procs, parser, built>>

CallConverter ==
  /\ runs = 0
  /\ \E kind \in {"url", "src"}, text \in RefTexts, base_url \in {"/site/", "/"},
        basename \in Basenames :
       call' = [NoCall EXCEPT !.fn = "_converter", !.url = text, !.base_url = base_url,
                              !.basename = basename, !.kind = kind,
                              !.res = converter([k |-> kind, v |-> text], base_url, basename)]
  /\ runs' = runs + 1
  /\ UNCHANGED <<cache, last, compress, procs, parser, built>>

NextUrl == CallGetBasename \/ CallAddCacheTag \/ CallConverter

SpecUrl == InitUrl /\ [][NextUrl]_vars

(***************************************************************************)
(* lib/utils.py: PyDecanterParser, fed one event at a time                 *)
(***************************************************************************)

\* PyDecanterParser.__init__ before self.feed: the parser for a list of tags
ParserOf(tags) == [tags |-> tags, elems |-> <<>>, current_tag |-> None, fed |-> <<>>]

\* PyDecanterParser.handle_starttag(tag, attrs)
handle_starttag(p, tag, attrs) ==
  IF Lower(tag) \in p.tags
  THEN [p EXCEPT !.elems = Append(@, Elem(Lower(tag), attrs, NoText)),
                 !.current_tag = Lower(tag)]
  ELSE p

\* handle_endtag in error: any closing tag closes the open tag
handle_endtag_any(p, tag) ==
  IF p.current_tag # None THEN [p EXCEPT !.current_tag = None] ELSE p

\* PyDecanterParser.handle_endtag(tag)
handle_endtag(p, tag) ==
  IF p.current_tag # None /\ p.current_tag = Lower(tag)
  THEN [p EXCEPT !.current_tag = None]
  ELSE p

\* PyDecanterParser.handle_data(data)
handle_data(p, data) ==
  IF p.current_tag \in p.tags THEN [p EXCEPT !.elems[Len(p.elems)].text = data] ELSE p

\* the events HTMLParser.feed calls the handlers for
StartEvent(tag, attrs) == [type |-> "start", tag |-> tag, attrs |-> attrs, data |-> <<>>]

EndEvent(tag) == [type |-> "end", tag |-> tag, attrs |-> NoAttrs, data |-> <<>>]

DataEvent(data) == [type |-> "data", tag |-> "", attrs |-> NoAttrs, data |-> data]

\* the parser after an event, with the event on record
Fed(p, event) == [p EXCEPT !.fed = Append(@, event)]

\* the lists of tags the compressors make their parsers for
ParserTags == {{"style", "link"}, {"script"}}

\* the start tags fed
StartTags ==
  { StartEvent("style", [media |-> "print"]),
    StartEvent("link", [rel |-> "stylesheet", href |-> "/site/a.css"]),
    StartEvent("script", NoAttrs) }

\* the closing tags fed
EndTags == {EndEvent("style"), EndEvent("STYLE"), EndEvent("script")}

\* the pieces of text fed
Texts == {DataEvent(<<Txt("a")>>), DataEvent(<<Txt("b"), Ws>>)}

\* the longest sequence of events fed
MaxEvents == 4

InitParse ==
  /\ cache = <<>>
  /\ last = NoRun
  /\ runs = 0
  /\ compress = TRUE
  /\ procs = <<>>
  /\ call = NoCall
  /\ built = NoBuild
  /\ parser \in {ParserOf(tags) : tags \in ParserTags}

FeedStart ==
  /\ Len(parser.fed) < MaxEvents
  /\ \E event \in StartTags :
       parser' = Fed(handle_starttag(parser, event.tag, event.attrs), event)
  /\ UNCHANGED <<cache, last, runs, compress, procs, call, built>>

FeedEnd ==
  /\ Len(parser.fed) < MaxEvents
  /\ \E event \in EndTags : parser' = Fed(handle_endtag(parser, event.tag), event)
  /\ UNCHANGED <<cache, last, runs, compress, procs, call, built>>

FeedData ==
  /\ Len(parser.fed) < MaxEvents
  /\ \E event \in Texts : parser' = Fed(handle_data(parser, event.data), event)
  /\ UNCHANGED <<cache, last, runs, compress, procs, call, built>>

NextParse == FeedStart \/ FeedEnd \/ FeedData

SpecParse == InitParse /\ [][NextParse]_vars

(***************************************************************************)
(* pydecanter.py: build_static and add_image_cache_tags                    *)
(***************************************************************************)

\* PyDecanter.__init__: self.base_url, with leading and trailing stroke
SiteBaseUrl == CtxBaseUrl \o "/"

\* PyDecanter.CACHE_TAG_EXCS
CACHE_TAG_EXCS ==
  {"favicon", "apple-touch-icon", "android-chrome", "mstile", "safari-pinned-tab"}

\* any(exc in name for exc in self.CACHE_TAG_EXCS)
IsExcluded(name) == \E exc \in CACHE_TAG_EXCS : Contains(name, exc)

\* the extensions of PyDecanter.RE_CACHEBUSTABLE
CacheBustExts == {"jpeg", "jpg", "gif", "png", "svg", "ttf", "woff", "woff2"}

\* whether "." and one of the extensions are at place i of a path
IsBustableAt(path, i) ==
  CharAt(path, i) = "." /\ \E ext \in CacheBustExts : StartsWith(From(path, i + 1), ext)

\* where the greedy (.*) of RE_CACHEBUSTABLE ends: the last such place up to
\* i, 0 when the expression does not match
RECURSIVE bustable_at(_, _)
bustable_at(path, i) ==
  IF i < 1 THEN 0 ELSE IF IsBustableAt(path, i) THEN i ELSE bustable_at(path, i - 1)

\* RE_CACHEBUSTABLE.sub(lambda m: ".".join((m.group(1), fh, m.group(2))), path)
\* for a match whose "." is at place i
cachebust_at(path, file_hash, i) ==
  SubSeq(path, 1, i - 1) \o "." \o file_hash \o "." \o From(path, i + 1)

\* the name build_static gives a file that it tags
cachebusted(filepath) ==
  cachebust_at(filepath, get_file_hash(filepath, HashLen).val, bustable_at(filepath, Len(filepath)))

\* PyDecanter.is_private(path), for PRIVATE_FILES as the class sets it
is_private(path) ==
  \/ EndsWith(path, ".mako")
  \/ StartsWith(path, ".") /\ ~StartsWith(path, ".htaccess")
  \/ \E i \in 1..(Len(path) - 1) :
       SubSeq(path, i, i + 1) = "/." /\ ~StartsWith(From(path, i + 2), "htaccess")
  \/ StartsWith(path, ".build")
  \/ StartsWith(path, ".git")
  \/ StartsWith(path, ".sass-cache")

\* build_static's public_files
public_files == {path \in DOMAIN SiteFiles : ~is_private(path)}

\* build_static's output_path for a public file
output_path(filepath, compressing) ==
  IF compressing /\ bustable_at(filepath, Len(filepath)) > 0 /\ ~IsExcluded(filepath)
  THEN PathJoin(OutputRoot, cachebusted(filepath))
  ELSE PathJoin(OutputRoot, filepath)

\* the files build_static's loop writes or copies
build_static(compressing) == {output_path(filepath, compressing) : filepath \in public_files}

\* the extensions of re_svgfallback and re_local_image
ImageExts == {"png", "gif", "jpg", "jpeg"}

\* add_image_cache_tags for the src of an img on the page at path
tag_img_src(src, path) ==
  IF IsExcluded(src) THEN Ok(src) ELSE add_cache_tag(src, SiteBaseUrl, path)

\* add_image_cache_tags for the fallback url of an img's onerror attribute
tag_onerror(fallback) ==
  IF /\ ~Contains(fallback, "'")
     /\ \E ext \in ImageExts : EndsWith(fallback, "." \o ext) /\ Len(fallback) > Len(ext) + 1
  THEN add_cache_tag(fallback, SiteBaseUrl, "")
  ELSE Ok(fallback)

\* whether re_local_image matches an href
is_local_image(href) ==
  /\ StartsWith(href, SiteBaseUrl)
  /\ Len(href) > Len(SiteBaseUrl) + 1
  /\ CharAt(href, Len(SiteBaseUrl) + 1) # "/"
  /\ \E ext \in ImageExts :
       EndsWith(href, "." \o ext) /\ Len(href) >= Len(SiteBaseUrl) + 2 + Len("." \o ext)

\* add_image_cache_tags for the href of an anchor on the page at path
tag_anchor(href, path) ==
  IF is_local_image(href) /\ ~IsExcluded(href)
  THEN add_cache_tag(href, SiteBaseUrl, path)
  ELSE Ok(href)

\* the url the css filter puts in place of a reference
converted_url(r) ==
  IF r.err # "none" THEN Raise(r.err) ELSE Ok(Strip(r.val[1].v, {"'"}))

\* the record of a reference rewritten during the build
RefOf(fn, kind, url, referrer, res) ==
  [NoCall EXCEPT !.fn = fn, !.kind = kind, !.url = url, !.base_url = SiteBaseUrl,
                 !.referrer = referrer, !.res = res]

\* the references nested in the stylesheets of the site
BuildCssRefs ==
  { "./img/x.png", "/site/img/logo.png", "/site/img/favicon.png", "/site/css/b.css",
    "img/none.png", "/site/img/logo.png?v=2#top", "../img/logo.png" }

\* the values of src of the img elements of the pages
BuildImgSrcs ==
  { "/site/img/logo.png", "img/logo.png", "/site/img/favicon.png", "/site/img/none.png",
    "/site/img/logo.png?v=2", "/site/v1.2/README" }

\* the fallback urls of the onerror attributes of the pages
BuildFallbacks ==
  {"/site/img/logo.png", "/site/img/favicon.png", "/site/v1.2/README", "img/logo.png"}

\* the values of href of the anchors of the pages
BuildHrefs ==
  { "/site/img/logo.png", "/site/img/favicon.png", "/site//img/logo.png", "/site/LICENSE" }

\* the pages, by the path they are rendered for
BuildPages == {"index.html", "css/about.html"}

InitBuild ==
  /\ cache = <<>>
  /\ last = NoRun
  /\ runs = 0
  /\ compress \in BOOLEAN
  /\ procs = <<>>
  /\ call = NoCall
  /\ parser = NoParser
  /\ built = NoBuild

\* build_static's loop over the public files
BuildStatic ==
  /\ ~built.done
  /\ built' = [built EXCEPT !.done = TRUE, !.written = build_static(compress)]
  /\ UNCHANGED <<cache, last, runs, compress, procs, call, parser>>

\* self.get of a page with a css block: the filter's pass over a reference
\* nested in a stylesheet of the block
RenderCssRef ==
  /\ compress
  /\ built.ref = NoCall
  /\ \E kind \in {"url", "src"}, url \in BuildCssRefs, basename \in Basenames :
       built' = [built EXCEPT !.ref =
                   RefOf("_converter", kind, url, basename,
                         converted_url(converter([k |-> kind, v |-> url], SiteBaseUrl, basename)))]
  /\ UNCHANGED <<cache, last, runs, compress, procs, call, parser>>

\* self.get of a page: add_image_cache_tags on an img's src
RenderImg ==
  /\ compress
  /\ built.ref = NoCall
  /\ \E src \in BuildImgSrcs, path \in BuildPages :
       built' = [built EXCEPT !.ref = RefOf("img", "src", src, path, tag_img_src(src, path))]
  /\ UNCHANGED <<cache, last, runs, compress, procs, call, parser>>

\* self.get of a page: add_image_cache_tags on an img's onerror fallback
RenderOnerror ==
  /\ compress
  /\ built.ref = NoCall
  /\ \E fallback \in BuildFallbacks, path \in BuildPages :
       built' = [built EXCEPT !.ref = RefOf("img", "onerror", fallback, path, tag_onerror(fallback))]
  /\ UNCHANGED <<cache, last, runs, compress, procs, call, parser>>

\* self.get of a page: add_image_cache_tags on an anchor's href
RenderAnchor ==
  /\ compress
  /\ built.ref = NoCall
  /\ \E href \in BuildHrefs, path \in BuildPages :
       built' = [built EXCEPT !.ref = RefOf("a", "href", href, path, tag_anchor(href, path))]
  /\ UNCHANGED <<cache, last, runs, compress, procs, call, parser>>

NextBuild == BuildStatic \/ RenderCssRef \/ RenderImg \/ RenderOnerror \/ RenderAnchor

SpecBuild == InitBuild /\ [][NextBuild]_vars

(***************************************************************************)
(* Compress calls of two request threads on one cache directory            *)
(* (pydecanter.py serves with a ThreadingWSGIServer): the steps of         *)
(*   if not os.path.exists(outputpath):                                    *)
(*       with codecs.open(outputpath, 'w', 'utf8') as file_handle:         *)
(*           file_handle.write(content)                                    *)
(* interleave.                                                             *)
(***************************************************************************)

Threads == {"t1", "t2"}

\* the final contents the threads come to write, with the extension of their
\* cache file
RaceJobs ==
  { [content |-> minify(do_replacements(ScriptText)), ext |-> "js"],
    [content |-> minify(do_replacements(SiteFiles["js/b.js"])), ext |-> "js"],
    [content |-> cssmin(StyleText), ext |-> "css"] }

\* a thread that is in no compress call
IdleProc == [pc |-> "idle", content |-> <<>>, outputpath |-> "", written |-> 0]

\* a part of a file no write has filled
Hole == [k |-> "hole", v |-> ""]

\* the file after a write of content[from..to] at that offset
WriteAt(file, content, from, to) ==
  [i \in 1..(IF Len(file) > to THEN Len(file) ELSE to) |->
     IF i >= from /\ i <= to THEN content[i]
     ELSE IF i <= Len(file) THEN file[i] ELSE Hole]

InitRace ==
  /\ cache = <<>>
  /\ last = NoRun
  /\ runs = 0
  /\ compress = TRUE
  /\ procs = [t \in Threads |-> IdleProc]
  /\ call = NoCall
  /\ parser = NoParser
  /\ built = NoBuild

\* the call up to outputpath = get_cache_filepath(content, assets_dir, ext)
Compute(t) ==
  /\ procs[t].pc = "idle"
  /\ \E job \in RaceJobs :
       procs' = [procs EXCEPT ![t] =
                   [pc |-> "exists", content |-> job.content,
                    outputpath |-> get_cache_filepath(job.content, AssetsDir, job.ext),
                    written |-> 0]]
  /\ UNCHANGED <<cache, last, runs, compress, call, parser, built>>

\* if not os.path.exists(outputpath)
Exists(t) ==
  /\ procs[t].pc = "exists"
  /\ procs' = [procs EXCEPT ![t].pc =
                 IF procs[t].outputpath \in DOMAIN cache THEN "url" ELSE "open"]
  /\ UNCHANGED <<cache, last, runs, compress, call, parser, built>>

\* codecs.open(outputpath, 'w', 'utf8'): the file is created, or truncated
Open(t) ==
  /\ procs[t].pc = "open"
  /\ cache' = [p \in DOMAIN cache \cup {procs[t].outputpath} |->
                 IF p = procs[t].outputpath THEN <<>> ELSE cache[p]]
  /\ procs' = [procs EXCEPT ![t].pc = "write"]
  /\ UNCHANGED <<last, runs, compress, call, parser, built>>

\* file_handle.write(content) and the close: the content reaches the file in
\* one piece or in several, each at the handle's own offset
Write(t) ==
  /\ procs[t].pc = "write"
  /\ \E to \in (procs[t].written + 1)..Len(procs[t].content) :
       /\ cache' = [cache EXCEPT ![procs[t].outputpath] =
                      WriteAt(@, procs[t].content, procs[t].written + 1, to)]
       /\ procs' = [procs EXCEPT ![t].written = to,
                                 ![t].pc = IF to = Len(procs[t].content) THEN "url" ELSE "write"]
  /\ UNCHANGED <<last, runs, compress, call, parser, built>>

\* the url is made of outputpath and the tag is returned
Return(t) ==
  /\ procs[t].pc = "url"
  /\ procs' = [procs EXCEPT ![t] = IdleProc]
  /\ UNCHANGED <<cache, last, runs, compress, call, parser, built>>

NextRace ==
  \E t \in Threads : Compute(t) \/ Exists(t) \/ Open(t) \/ Write(t) \/ Return(t)

SpecRace == InitRace /\ [][NextRace]_vars

(***************************************************************************)
(* Properties                                                              *)
(***************************************************************************)

\* whether compress_css makes a unit of an element
IsFragment(elem) ==
  \/ elem.tag = "style"
  \/ elem.tag = "link" /\ "rel" \in DOMAIN elem.attrs /\ Lower(elem.attrs["rel"]) = "stylesheet"

\* the elements of the units of the groups from group i on, in group order
RECURSIVE UnitElems(_, _)
UnitElems(media_nodes, i) ==
  IF i > Len(media_nodes) THEN <<>>
  ELSE [j \in 1..Len(media_nodes[i].units) |-> media_nodes[i].units[j].elem]
       \o UnitElems(media_nodes, i + 1)

\* the media values of a sequence of elements
MediaOf(elems) == [i \in 1..Len(elems) |-> AttrGet(elems[i], "media")]

\* C1: the media groups compress_css makes of a block are the maximal runs of
\* consecutive fragments with equal media value: no group is empty, every unit
\* of a group has the group's media value, no two adjacent groups have the
\* same media value, and the units of the groups in group order are the
\* block's fragments in document order.
C1_MediaGroupsAreMaximalRuns ==
  (last.kind = "css" /\ last.err = "none") =>
    /\ \A i \in 1..Len(last.media_nodes) :
         /\ Len(last.media_nodes[i].units) > 0
         /\ \A j \in 1..Len(last.media_nodes[i].units) :
              AttrGet(last.media_nodes[i].units[j].elem, "media") = last.media_nodes[i].media
    /\ \A i \in 1..(Len(last.media_nodes) - 1) :
         last.media_nodes[i].media # last.media_nodes[i + 1].media
    /\ UnitElems(last.media_nodes, 1) = SelectSeq(last.elems, IsFragment)

\* the media sequence [None, print, None, None, screen] was grouped, into 4
\* groups
C1_Witness ==
  /\ last.kind = "css"
  /\ last.err = "none"
  /\ MediaOf(SelectSeq(last.elems, IsFragment)) = <<None, "print", None, None, "screen">>
  /\ Len(last.media_nodes) = 4

\* C2: the store never overwrites an existing path: across every decorator
\* call of a sequence on one cache directory, a cache file that exists stays
\* and keeps its content, and the call writes to no path that existed, and to
\* no path twice.
C2_StoreIsWriteOnce ==
  [][/\ \A p \in DOMAIN cache : p \in DOMAIN cache' /\ cache'[p] = cache[p]
     /\ \A i \in 1..Len(last'.writes) :
          /\ last'.writes[i].path \notin DOMAIN cache
          /\ ~last'.writes[i].existed
          /\ \A j \in 1..Len(last'.writes) : j # i => last'.writes[j].path # last'.writes[i].path]_vars

\* a compress call found its output path in the cache directory and wrote
\* nothing
C2_Witness ==
  /\ compress
  /\ last.kind = "js"
  /\ last.err = "none"
  /\ last.wrote = "tags"
  /\ last.writes = <<>>
  /\ get_cache_filepath(minify(do_replacements(ScriptText)), AssetsDir, "js") \in DOMAIN cache

\* C4: compressing the same block twice in sequence: when the first call
\* returned, the second returns the same tag output and writes nothing to the
\* cache directory.
C4_SecondRunIsIdentical ==
  [][(/\ compress
      /\ runs' = runs + 1
      /\ last.kind # "none"
      /\ last.err = "none"
      /\ last'.kind = last.kind
      /\ last'.elems = last.elems)
     => (/\ last'.err = "none"
         /\ last'.out = last.out
         /\ last'.wrote = "tags"
         /\ last'.writes = <<>>)]_vars

\* a block of two groups was compressed a second time
C4_Witness ==
  /\ compress
  /\ last.again
  /\ last.kind = "css"
  /\ last.err = "none"
  /\ Len(last.output_elems) = 2
  /\ runs = 2

\* C5: every file of the cache directory is named <h>.css or <h>.js in the
\* assets directory, h the first 12 digits of the digest of the file's own
\* content, and that content is the minified one (no white space is left in
\* it).
C5_PathIsHashOfFinalContent ==
  \A p \in DOMAIN cache :
    /\ \E ext \in {"css", "js"} :
         p = AssetsDir \o "/" \o SubSeq(Digest(cache[p]), 1, 12) \o "." \o ext
    /\ \A i \in 1..Len(cache[p]) : cache[p][i].k # "ws"

\* a stylesheet and a script were written, of sources with white space
C5_Witness ==
  /\ \E p \in DOMAIN cache : EndsWith(p, ".css") /\ Len(cache[p]) > 0
  /\ \E p \in DOMAIN cache : EndsWith(p, ".js") /\ Len(cache[p]) > 0

\* C6: get_basename fails with NotAccessibleError for a url that does not
\* start with base_url; for one that does, it returns what follows the
\* base_url prefix, up to the first "?".
C6_BasenameOfDeclaredUrl ==
  call.fn = "get_basename" =>
    IF ~StartsWith(call.url, call.base_url)
    THEN call.res.err = "NotAccessibleError"
    ELSE /\ call.res.err = "none"
         /\ StartsWith(From(call.url, Len(call.base_url) + 1), call.res.val)
         /\ ~Contains(call.res.val, "?")
         /\ \/ call.base_url \o call.res.val = call.url
            \/ StartsWith(call.url, call.base_url \o call.res.val \o "?")

\* "/other/app/style.css" was resolved against "/site/"
C6_Witness ==
  /\ call.fn = "get_basename"
  /\ call.url = "/other/app/style.css"
  /\ call.base_url = "/site/"
  /\ call.res.err = "NotAccessibleError"

\* the url of a declared target: a stylesheet link's href, a script's src
Declared(kind, elem) ==
  IF kind = "css"
  THEN IF IsFragment(elem) /\ elem.tag = "link" /\ "href" \in DOMAIN elem.attrs
       THEN {elem.attrs["href"]} ELSE {}
  ELSE IF "src" \in DOMAIN elem.attrs THEN {elem.attrs["src"]} ELSE {}

\* whether a declared url is outside base_url or names nothing on disk
BadTarget(url) ==
  \/ ~StartsWith(url, CtxBaseUrl \o "/")
  \/ ~PathExists(SplitHead(From(url, Len(CtxBaseUrl) + 2), "?"))

\* C7: a block with a declared target outside base_url or missing on disk:
\* the compress call raises, the cache directory is as it was before the
\* call, and the decorator logs, re-raises and writes no markup.
C7_FailureLeavesNoTrace ==
  [][(/\ compress
      /\ runs' = runs + 1
      /\ \E i \in 1..Len(last'.elems) :
           \E url \in Declared(last'.kind, last'.elems[i]) : BadTarget(url))
     => (/\ last'.err # "none"
         /\ cache' = cache
         /\ last'.writes = <<>>
         /\ last'.logged
         /\ last'.wrote = "nothing")]_vars

\* on a populated cache directory, a block whose first two groups were made
\* and whose third element is missing on disk failed
C7_Witness ==
  /\ last.kind = "css"
  /\ last.err = "FileNotFoundError"
  /\ Len(last.elems) = 3
  /\ last.elems[1].tag = "style"
  /\ Len(last.media_nodes) = 2
  /\ last.logged
  /\ last.wrote = "nothing"
  /\ DOMAIN cache # {}

\* the nested reference a converter call is made for, as _converter strips it
RefUrl == Strip(call.url, {" ", "'", "\""})

\* C8: a nested reference that cannot be mapped to an existing file appears
\* in the rewritten CSS with its original url, exactly as written.
C8_UnresolvableReferenceUnchanged ==
  (/\ call.fn = "_converter"
   /\ ~StartsWith(RefUrl, "#")
   /\ ~StartsWith(RefUrl, "data:")
   /\ extract_filename(converter_url(RefUrl, call.base_url, call.basename),
                       filter_base_url(call.base_url), "") = NoNode)
  => (/\ call.res.err = "none"
      /\ Len(call.res.val) = 1
      /\ Strip(call.res.val[1].v, {"'"}) = RefUrl)

\* the url without querystring and fragment
UrlPath(url) == SplitHead(SplitHead(url, "#"), "?")

\* C9: for a url that resolves to an existing file, add_cache_tag returns the
\* url with the file's 12-character hash between the name and the extension
\* of the final path segment, the querystring and the fragment following as
\* in the input.
C9_TagSplicedBeforeExtension ==
  (/\ call.fn = "add_cache_tag"
   /\ extract_filename(call.url, call.base_url, call.referrer) # NoNode
   /\ Resolve(extract_filename(call.url, call.base_url, call.referrer)) \in DOMAIN SiteFiles)
  => (/\ call.res.err = "none"
      /\ Contains(RSplitTail("/" \o UrlPath(call.url), "/"), ".")
      /\ call.res.val =
           RSplitHead(UrlPath(call.url), ".") \o "."
           \o SubSeq(Digest(SiteFiles[Resolve(extract_filename(call.url, call.base_url,
                                                               call.referrer))]), 1, 12)
           \o "." \o RSplitTail(UrlPath(call.url), ".")
           \o From(call.url, Len(UrlPath(call.url)) + 1))

\* C10: for a url that starts with "data:" or with "#", add_cache_tag returns
\* its input unchanged and looks nothing up on the file system.
C10_ExclusionPassthrough ==
  (/\ call.fn = "add_cache_tag"
   /\ (StartsWith(call.url, "data:") \/ StartsWith(call.url, "#")))
  => (/\ call.res = Ok(call.url)
      /\ call.lookups = <<>>)

\* C3: with compress calls interleaved on one cache directory, a cache path
\* either does not exist or holds the complete final content of a call that
\* writes it.
C3_NoPartialFile ==
  (\A t \in Threads : procs[t].pc # "idle") =>
    \A p \in DOMAIN cache :
      \E job \in RaceJobs :
        /\ p = get_cache_filepath(job.content, AssetsDir, job.ext)
        /\ cache[p] = job.content

\* whether an element is a link that is no stylesheet: its rel is not
\* "stylesheet", or it has no rel
IsOtherLink(elem) ==
  elem.tag = "link"
  /\ ("rel" \notin DOMAIN elem.attrs \/ Lower(elem.attrs["rel"]) # "stylesheet")

\* whether the last call did what the call r did
SameOutcome(r) ==
  /\ last.err = r.err
  /\ last.out = r.out
  /\ last.media_nodes = r.media_nodes

\* C11: a link that is no stylesheet (another rel, or no rel at all) is
\* ignored by compress_css: the call on a block raises what the call on the
\* block without these links raises, and makes the same groups and the same
\* output.
C11_NonStylesheetLinkIgnored ==
  (last.kind = "css" /\ runs = 1) =>
    SameOutcome(compress_css(SelectSeq(last.elems, LAMBDA elem : ~IsOtherLink(elem)),
                             CtxBaseUrl, <<>>))

\* the text a tag of compress_css starts with, up to the url
LinkTagHead == "<link rel=\"stylesheet\" href=\""

\* the lines of a markup; none for the empty markup
LinesOf(out) == IF out = "" THEN <<>> ELSE Split(out, "\n")

\* the url between the quotes of a tag's href
HrefOf(line) == SplitHead(From(line, Len(LinkTagHead) + 1), "\"")

\* the cache file a url of the assets directory names
AssetPathOf(url) == AssetsDir \o "/" \o RSplitTail(url, "/")

\* whether a piece of markup is the one tag for a group whose final content
\* is content: a stylesheet link whose href names the cache file of that
\* content, which exists, with the group's media attribute when the group has
\* a media value and without media attribute when it has none
IsTagOfGroup(line, media, content) ==
  /\ StartsWith(line, LinkTagHead)
  /\ EndsWith(line, "/>")
  /\ Len(Split(line, "<")) = 2
  /\ HrefOf(line) = CtxBaseUrl \o "/" \o AssetsDirName \o "/" \o RSplitTail(HrefOf(line), "/")
  /\ AssetPathOf(HrefOf(line)) = AssetsDir \o "/" \o SubSeq(Digest(content), 1, 12) \o ".css"
  /\ AssetPathOf(HrefOf(line)) \in DOMAIN cache
  /\ IF media = None THEN ~Contains(line, "media")
     ELSE From(line, Len(LinkTagHead) + Len(HrefOf(line)) + 1)
            = "\" media=\"" \o media \o "\" />"

\* C12: compress_css returns exactly one stylesheet link tag per media group,
\* in the order of the groups; each tag's href names the cache file of its
\* group's final content, and a tag has a media attribute exactly when its
\* group's media value is not None, with the group's value.
C12_OneTagPerGroupInOrder ==
  (last.kind = "css" /\ last.err = "none" /\ last.wrote = "tags") =>
    /\ Len(LinesOf(last.out)) = Len(last.media_nodes)
    /\ \A i \in 1..Len(last.media_nodes) :
         IsTagOfGroup(LinesOf(last.out)[i], last.media_nodes[i].media,
                      cssmin(css_group_content(last.media_nodes[i], CtxBaseUrl \o "/").val))

\* a block of three groups, without media, for print and for screen, was
\* compressed to three tags
C12_Witness ==
  /\ last.kind = "css"
  /\ last.err = "none"
  /\ last.wrote = "tags"
  /\ [i \in 1..Len(last.media_nodes) |-> last.media_nodes[i].media] = <<None, "print", "screen">>
  /\ Len(LinesOf(last.out)) = 3

\* the text a tag of compress_js starts with, up to the url, and the text it
\* ends with
ScriptTagHead == "<script src=\""

ScriptTagTail == "\"></script>"

\* the url between the quotes of a script tag's src
SrcOf(out) == SplitHead(From(out, Len(ScriptTagHead) + 1), "\"")

\* whether a markup is exactly one script tag whose src names the cache file
\* of content, and that file holds content
IsOneScriptTagOf(out, content) ==
  /\ out = ScriptTagHead \o SrcOf(out) \o ScriptTagTail
  /\ Len(Split(out, "<")) = 3
  /\ SrcOf(out) = CtxBaseUrl \o "/" \o AssetsDirName \o "/" \o SubSeq(Digest(content), 1, 12) \o ".js"
  /\ AssetPathOf(SrcOf(out)) \in DOMAIN cache
  /\ cache[AssetPathOf(SrcOf(out))] = content

\* the unit of a script element as the claim describes it: the content of the
\* file its src names under base_url, or its inline text
RawUnit(elem) ==
  IF "src" \in DOMAIN elem.attrs
  THEN SiteFiles[SplitHead(From(elem.attrs["src"], Len(CtxBaseUrl) + 2), "?")]
  ELSE elem.text

\* the units of a block from element i on, one after the other
RECURSIVE RawConcat(_, _)
RawConcat(elems, i) ==
  IF i > Len(elems) THEN <<>> ELSE RawUnit(elems[i]) \o RawConcat(elems, i + 1)

\* the units of a block from element i on, each without its "use strict"
\* directives, one after the other
RECURSIVE StrippedConcat(_, _)
StrippedConcat(elems, i) ==
  IF i > Len(elems) THEN <<>>
  ELSE do_replacements(RawUnit(elems[i])) \o StrippedConcat(elems, i + 1)

IsRelativeRef(url) ==
  /\ url # ""
  /\ ~StartsWith(url, "#")
  /\ ~StartsWith(url, "data:")
  /\ ~StartsWith(url, "/")
  /\ ~Contains(url, "://")

\* the node a relative reference names, walked from the directory of the
\* stylesheet it appears in
OwnTarget(url, basename) == Walk(Split(UrlPath(url), "/"), DirName(basename))

\* the text of a hash between the name and the extension of a url
TagOf(node) == "." \o SubSeq(Digest(SiteFiles[node]), 1, 12) \o "."

\* whether a url carries a hash
IsTagged(url) == Contains(url, SubSeq(DigestTail, 1, 11) \o ".")

\* C14: a relative reference nested in a stylesheet is resolved against the
\* directory of that stylesheet, with "." and ".." normalized, for every
\* base_url: the reference is rewritten with the hash of the file found
\* there, and with no hash when no file is found there.
C14_RelativeRefResolvedInOwnDirectory ==
  (call.fn = "_converter" /\ IsRelativeRef(RefUrl)) =>
    /\ call.res.err = "none"
    /\ Len(call.res.val) = 1
    /\ IF OwnTarget(RefUrl, call.basename) \in DOMAIN SiteFiles
       THEN Contains(call.res.val[1].v, TagOf(OwnTarget(RefUrl, call.basename)))
       ELSE ~IsTagged(call.res.val[1].v)

\* the event a step feeds to the parser
FedEvent == parser'.fed[Len(parser'.fed)]

\* C15: a closing tag that does not match the open tag of interest (no tag
\* is open, or another tag is open) is ignored: the event leaves the list of
\* fragments, every fragment's text and the current-tag cursor as they were.
C15_UnmatchedEndTagIgnored ==
  [][(/\ Len(parser'.fed) = Len(parser.fed) + 1
      /\ FedEvent.type = "end"
      /\ (parser.current_tag = None \/ parser.current_tag # Lower(FedEvent.tag)))
     => (/\ parser'.elems = parser.elems
         /\ parser'.current_tag = parser.current_tag
         /\ parser'.tags = parser.tags)]_vars

\* </script> was fed while a style element with text was open, and it is
\* still open
C15_Witness ==
  /\ Len(parser.fed) = 3
  /\ parser.fed[1].type = "start"
  /\ parser.fed[1].tag = "style"
  /\ parser.fed[2].type = "data"
  /\ parser.fed[3] = EndEvent("script")
  /\ parser.current_tag = "style"
  /\ Len(parser.elems) = 1
  /\ parser.elems[1].text = parser.fed[2].data

\* the number of fragments the events up to event i opened
FragmentsUpTo(i) ==
  Cardinality({k \in 1..i : parser.fed[k].type = "start" /\ Lower(parser.fed[k].tag) \in parser.tags})

\* the text of the events i to j, one after the other
RECURSIVE TextBetween(_, _)
TextBetween(i, j) ==
  IF i > j THEN <<>> ELSE parser.fed[i].data \o TextBetween(i + 1, j)

\* whether event i opens a tag of interest that event j closes, with nothing
\* but text, and some text, between the two
IsTextRun(i, j) ==
  /\ i + 1 < j
  /\ parser.fed[i].type = "start"
  /\ Lower(parser.fed[i].tag) \in parser.tags
  /\ parser.fed[j].type = "end"
  /\ Lower(parser.fed[j].tag) = Lower(parser.fed[i].tag)
  /\ \A k \in (i + 1)..(j - 1) : parser.fed[k].type = "data"

\* C16: the inline text of a fragment is all the text between its open tag
\* and its matching close tag: text that arrives as several text events is
\* concatenated in order, and text after the close tag or before the open tag
\* is not part of it.
C16_InlineTextIsAllText ==
  \A i, j \in 1..Len(parser.fed) :
    IsTextRun(i, j) => parser.elems[FragmentsUpTo(i)].text = TextBetween(i + 1, j - 1)

\* C17: rewriting a nested reference never raises: for every url found in
\* content, add_cache_tag returns a url, and so does the filter's converter
\* that calls it.
C17_NestedRewriteNeverRaises ==
  call.fn \in {"add_cache_tag", "_converter"} => call.res.err = "none"

\* C18: the rewriting pass keeps the form of a reference: what replaces a
\* matched src='...' is a src= reference and what replaces a matched url(...)
\* is a url(...) reference, whatever the url starts with.
C18_ReferenceFormKept ==
  (call.fn = "_converter" /\ call.res.err = "none") =>
    /\ Len(call.res.val) = 1
    /\ call.res.val[1].k = call.kind

\* the file of the output directory a url on a page or in a stylesheet
\* names: the url without querystring and fragment, under base_url, or
\* relative to the directory of what refers to it
NamedOutput(url, referrer) ==
  IF StartsWith(url, SiteBaseUrl)
  THEN PathJoin(OutputRoot, From(UrlPath(url), Len(SiteBaseUrl) + 1))
  ELSE IF StartsWith(url, "/") THEN NoNode
  ELSE PathJoin(OutputRoot, NormPath(PathJoin(DirName(referrer), UrlPath(url))))

\* C19: in a compressed static build, every tagged url the reference rewriter
\* produces, in stylesheet content or in rendered HTML, names a file
\* build_static writes, and a reference to an asset of the exclusion list,
\* which build_static copies untagged, is not tagged.
C19_TaggedUrlsNameBuiltFiles ==
  (compress /\ built.done /\ built.ref.fn # "none" /\ built.ref.res.err = "none") =>
    /\ IsTagged(built.ref.res.val) =>
         NamedOutput(built.ref.res.val, built.ref.referrer) \in built.written
    /\ IsExcluded(built.ref.url) => ~IsTagged(built.ref.res.val)

====
